---- MODULE Spec2Model ----
(***************************************************************************)
(* Model of update_traefik_and_cloudflare_authelia.py: a one-shot script   *)
(* that adds a router/service pair to a Traefik YAML document, creates a   *)
(* Cloudflare CNAME record and appends a subdomain to Authelia's access    *)
(* control rules.  One action per block of the script; a process           *)
(* invocation runs them in source order, and the two documents on disk     *)
(* outlive the process so that repeated invocations can be examined.       *)
(*                                                                         *)
(* Text is a sequence of one-character strings, so that strip(), lower(),  *)
(* f-string concatenation and Python's code-point ordering are computed.   *)
(* A Python dict is a sequence of <<key, value>> pairs with distinct keys  *)
(* in insertion order.  A YAML file holding a mapping is the sequence of   *)
(* its <<key, value>> lines in file order.                                 *)
(***************************************************************************)
EXTENDS Integers, Sequences, FiniteSets, TLC

\* ------------------------------------------------------------------ bounds
\* Number of times the script is invoked against the same two files.
MaxRuns == 2

\* ------------------------------------------------------------------- text
\* Unicode code points of the characters the model's strings are made of
\* (the grave accent U+0060 cannot be written in a TLA+ string and is
\* spelled "BACKTICK").
CodePoints ==
  { <<"\t", 9>>, <<" ", 32>>, <<"(", 40>>, <<")", 41>>, <<"-", 45>>,
    <<".", 46>>, <<"/", 47>>, <<"0", 48>>, <<"1", 49>>, <<"9", 57>>,
    <<":", 58>>,
    <<"H", 72>>, <<"N", 78>>, <<"P", 80>>, <<"S", 83>>, <<"T", 84>>,
    <<"BACKTICK", 96>>, <<"a", 97>>, <<"b", 98>>, <<"c", 99>>, <<"e", 101>>,
    <<"f", 102>>, <<"h", 104>>, <<"l", 108>>, <<"m", 109>>, <<"n", 110>>,
    <<"o", 111>>, <<"p", 112>>, <<"s", 115>>, <<"t", 116>>, <<"v", 118>>,
    <<"x", 120>>, <<"z", 122>> }

ord(c) == (CHOOSE p \in CodePoints : p[1] = c)[2]

chr(n) == (CHOOSE p \in CodePoints : p[2] = n)[1]

\* str.lower() on one character: A-Z map to a-z, everything else is kept.
LowerChar(c) == IF ord(c) >= 65 /\ ord(c) <= 90 THEN chr(ord(c) + 32) ELSE c

lower(s) == [i \in 1..Len(s) |-> LowerChar(s[i])]

Whitespace == {" ", "\t"}

\* str.strip(): drop leading and trailing whitespace, keep inner whitespace.
strip(s) ==
  LET keep == {i \in 1..Len(s) : s[i] \notin Whitespace}
  IN  IF keep = {} THEN <<>>
      ELSE LET lo == CHOOSE i \in keep : \A j \in keep : i <= j
               hi == CHOOSE i \in keep : \A j \in keep : j <= i
           IN  SubSeq(s, lo, hi)

\* Python's < on str: code-point-wise lexicographic, a proper prefix first.
StrLess(a, b) ==
  \E i \in 1..(Len(a) + 1) :
    /\ i <= Len(b)
    /\ \A j \in 1..(i - 1) : a[j] = b[j]
    /\ \/ i = Len(a) + 1
       \/ i <= Len(a) /\ ord(a[i]) < ord(b[i])

\* ------------------------------------------------------------------ dicts
Keys(d) == [i \in 1..Len(d) |-> d[i][1]]

KeySet(d) == {d[i][1] : i \in 1..Len(d)}

Has(d, k) == k \in KeySet(d)

Get(d, k) == (CHOOSE i \in 1..Len(d) : d[i][1] = k)

Lookup(d, k) == d[Get(d, k)][2]

\* Python dict equality: same keys, equal value under each key; order of
\* insertion does not matter.
DictEq(a, b) ==
  /\ KeySet(a) = KeySet(b)
  /\ \A k \in KeySet(a) : Lookup(a, k) = Lookup(b, k)

\* d[k] = v : an existing key keeps its position and takes the new value
\* whole; a new key goes to the end.
SetItem(d, k, v) ==
  IF Has(d, k)
  THEN [i \in 1..Len(d) |-> IF d[i][1] = k THEN <<k, v>> ELSE d[i]]
  ELSE Append(d, <<k, v>>)

\* dict.update(entry) for an entry dict: SetItem for each of its items.
RECURSIVE update(_, _)
update(d, entry) ==
  IF entry = <<>> THEN d
  ELSE update(SetItem(d, Head(entry)[1], Head(entry)[2]), Tail(entry))

\* Insert one item into a key-sorted list (keys are distinct).
RECURSIVE InsertByKey(_, _)
InsertByKey(sortedItems, item) ==
  IF sortedItems = <<>> THEN <<item>>
  ELSE IF StrLess(item[1], Head(sortedItems)[1])
       THEN <<item>> \o sortedItems
       ELSE <<Head(sortedItems)>> \o InsertByKey(Tail(sortedItems), item)

RECURSIVE SortItems(_)
SortItems(items) ==
  IF items = <<>> THEN <<>>
  ELSE InsertByKey(SortItems(Tail(items)), Head(items))

\* Variant of sorted_dict: the mapping is left in insertion order.
unsorted_dict(d) == d

\* dict(sorted(d.items())): the items are (key, value) tuples and the keys
\* are distinct, so the order is the order of the keys.
sorted_dict(d) == SortItems(d)

\* ------------------------------------------------------------------- YAML
\* yaml.safe_load of a mapping: keys are constructed in file order and a
\* repeated key overwrites the earlier value.
yaml_safe_load_mapping(lines) == update(<<>>, lines)

\* yaml.dump of a mapping (sort_keys defaults to True): lines by sorted key.
yaml_dump_mapping(d) == SortItems(d)

\* A routing document: the http.routers and http.services mappings.
yaml_safe_load(file) ==
  [routers  |-> yaml_safe_load_mapping(file.routers),
   services |-> yaml_safe_load_mapping(file.services)]

yaml_dump(doc) ==
  [routers  |-> yaml_dump_mapping(doc.routers),
   services |-> yaml_dump_mapping(doc.services)]

\* Equality of two parsed routing documents (Python ==).
DocEq(a, b) == DictEq(a.routers, b.routers) /\ DictEq(a.services, b.services)

\* An access-control rule is a mapping with the keys domain and policy;
\* order is the order its keys have in the file or dict.  Loading keeps the
\* order of the file, dumping writes the keys sorted.
RuleKeysSorted == <<"domain", "policy">>

authelia_safe_load(file) == file

authelia_dump(rules) ==
  [i \in 1..Len(rules) |-> [rules[i] EXCEPT !.order = RuleKeysSorted]]

\* Python == on two rules, and on two rule lists.
RuleEq(a, b) == a.domain = b.domain /\ a.policy = b.policy

RulesEq(a, b) ==
  Len(a) = Len(b) /\ \A i \in 1..Len(a) : RuleEq(a[i], b[i])

\* ------------------------------------------------------ values of the model
T_http  == <<"h", "t", "t", "p">>
T_https == <<"h", "t", "t", "p", "s">>
T_alpha == <<"a", "l", "p", "h", "a">>
T_zeta  == <<"z", "e", "t", "a">>
T_lab   == <<"l", "a", "b">>
T_domain == <<"e", "x", ".", "c", "o", "m">>
T_None  == <<"N", "o", "n", "e">>
T_ip    == <<"1", "0", ".", "0", ".", "0", ".", "9">>
T_host  == <<"n", "a", "s", ".", "l", "a", "n", ":", "9", "0">>

\* What os.getenv can return: None (the empty tuple here), or a string
\* wrapped in a one-element tuple.
None == <<>>

Some(s) == <<s>>

EnvChoices(value) == {None, Some(<<>>), Some(value)}

\* Truthiness of an os.getenv result: None and "" are falsy.
Truthy(v) == v # None /\ v[1] # <<>>

\* str() of a value inside an f-string.
Format(v) == IF v = None THEN T_None ELSE v[1]

\* sys.argv of an invocation: the script name and the arguments.
ArgvChoices ==
  { <<"script">>, <<"script", "config.yml">>, <<"script", "missing.yml">>,
    <<"script", "config.yml", "extra">> }

\* The paths at which a routing document exists.
ExistingFiles == {"config.yml"}

ServiceNames == {T_alpha, T_zeta}

\* The "IP address" prompt takes any text: an address, or a host and port.
IpAddresses == {T_ip, T_host}

\* What the user may type at the scheme prompt.
SchemeInputs ==
  { T_http, <<"H", "T", "T", "P", "S">>, <<" ", "h", "t", "t", "p", "s", "\t">>,
    <<"f", "t", "p">>, <<>>, <<"h", " ", "t", "t", "p">> }

\* HTTP statuses the DNS provider may answer with; requests.post may also
\* raise (no answer).
StatusCodes == {200, 201, 409, 403, 500}

\* Router and service definitions found in a document before the script
\* runs; they differ from what the script writes in every field.
OldRouter(name) ==
  [entryPoints |-> <<"http">>,
   rule        |-> <<"H", "o", "s", "t", "(", "BACKTICK">> \o name \o <<"BACKTICK", ")">>,
   middlewares |-> <<"chain-authelia">>,
   service     |-> T_lab \o <<"-", "s", "v", "c">>,
   priority    |-> "high"]

OldService ==
  [loadBalancer |->
     [servers |-> << [url |-> T_http \o <<":", "/", "/">> \o T_lab \o <<"/">>],
                     [url |-> T_http \o <<":", "/", "/">> \o T_zeta \o <<"/">>] >>,
      passHostHeader |-> FALSE,
      sticky |-> "cookie"]]

Svc(name) == name \o <<"-", "s", "v", "c">>

\* Routing documents on disk before the first invocation: empty mappings, a
\* sorted one, and a hand-written one that is unsorted and repeats a key.
InitialRoutingFiles ==
  { [routers |-> <<>>, services |-> <<>>],
    [routers  |-> << <<T_zeta, OldRouter(T_zeta)>> >>,
     services |-> << <<Svc(T_zeta), OldService>> >>],
    [routers  |-> << <<T_zeta, OldRouter(T_lab)>>, <<T_lab, OldRouter(T_lab)>>,
                     <<T_alpha, OldRouter(T_alpha)>>,
                     <<T_zeta, OldRouter(T_zeta)>> >>,
     services |-> << <<Svc(T_zeta), OldService>>, <<Svc(T_lab), OldService>> >>] }

Sub(name) == name \o <<".">> \o T_domain

\* Access-control rule lists on disk before the first invocation.
InitialAutheliaFiles ==
  { <<>>,
    << [order |-> <<"policy", "domain">>, domain |-> <<T_domain>>,
        policy |-> "two_factor"] >>,
    << [order |-> <<"domain", "policy">>, domain |-> <<Sub(T_lab)>>,
        policy |-> "bypass"],
       [order |-> <<"policy", "domain">>, domain |-> <<T_domain>>,
        policy |-> "one_factor"],
       [order |-> <<"domain", "policy">>, domain |-> <<>>,
        policy |-> "one_factor"],
       [order |-> <<"domain", "policy">>, domain |-> <<Sub(T_lab), T_domain>>,
        policy |-> "two_factor"] >> }

\* ------------------------------------------------------------------ state
VARIABLES
  pc,                    \* the block of the script that runs next
  exit_code,             \* None while running, else the exit status
  failed_at,             \* the block at which the process terminated early
  runs,                  \* invocations started so far
  CLOUDFLARE_API_TOKEN, CLOUDFLARE_ZONE_ID, DOMAIN_NAME,
  config_file,           \* sys.argv[1]
  config,                \* the routing document in memory
  config_disk,           \* the routing document file
  backup_file,           \* ./backups/config_backup_<timestamp>.yml of this run
  service_name, ip_address, scheme,
  scheme_input,          \* the text typed at the scheme prompt
  response,              \* status code of the DNS provider's answer
  dns_requests,          \* POST requests sent by this run
  authelia_config,       \* the access-control rules in memory
  authelia_disk,         \* the access-control document file
  authelia_backup_file,  \* configuration_backup_<timestamp>.yml of this run
  config_disk0,          \* the routing file as it was when this run started
  authelia_disk0,        \* the access-control file as it was at that time
  effects,               \* the external effects of this run, in order
  prev                   \* what the previous invocation did

vars ==
  << pc, exit_code, failed_at, runs, CLOUDFLARE_API_TOKEN, CLOUDFLARE_ZONE_ID,
     DOMAIN_NAME, config_file, config, config_disk, backup_file, service_name,
     ip_address, scheme, scheme_input, response, dns_requests, authelia_config,
     authelia_disk, authelia_backup_file, config_disk0, authelia_disk0,
     effects, prev >>

envVars == << CLOUDFLARE_API_TOKEN, CLOUDFLARE_ZONE_ID, DOMAIN_NAME >>

inputVars == << service_name, ip_address, scheme, scheme_input >>

routingVars == << config_file, config, config_disk, backup_file >>

dnsVars == << response, dns_requests >>

autheliaVars == << authelia_config, authelia_disk, authelia_backup_file >>

historyVars == << runs, config_disk0, authelia_disk0, prev >>

NoPrev == [completed |-> FALSE, service_name |-> <<>>, ip_address |-> <<>>,
           scheme |-> <<>>]

Init ==
  /\ pc = "env"
  /\ exit_code = None
  /\ failed_at = "none"
  /\ runs = 1
  /\ CLOUDFLARE_API_TOKEN = None
  /\ CLOUDFLARE_ZONE_ID = None
  /\ DOMAIN_NAME = None
  /\ config_file = "none"
  /\ config = None
  /\ config_disk \in InitialRoutingFiles
  /\ backup_file = None
  /\ service_name = <<>>
  /\ ip_address = <<>>
  /\ scheme = <<>>
  /\ scheme_input = <<>>
  /\ response = None
  /\ dns_requests = <<>>
  /\ authelia_config = None
  /\ authelia_disk \in InitialAutheliaFiles
  /\ authelia_backup_file = None
  /\ config_disk0 = config_disk
  /\ authelia_disk0 = authelia_disk
  /\ effects = <<>>
  /\ prev = NoPrev

\* sys.exit(1), or an exception nobody catches: the process ends, status 1.
Abort(block) ==
  /\ pc' = "exit"
  /\ exit_code' = Some(1)
  /\ failed_at' = block

Goto(block) ==
  /\ pc' = block
  /\ UNCHANGED << exit_code, failed_at >>

\* ------------------------------------------------------------ environment
\* Variant of env_missing: the domain is not tested.
env_missing_domain_untested(token, zone, domain) ==
  ~Truthy(token) \/ ~Truthy(zone)

\* The test of line 16.
env_missing(token, zone, domain) ==
  ~Truthy(token) \/ ~Truthy(zone) \/ ~Truthy(domain)

CheckEnv ==
  /\ pc = "env"
  /\ \E token \in EnvChoices(<<"t">>), zone \in EnvChoices(<<"z">>),
        domain \in EnvChoices(T_domain) :
       /\ CLOUDFLARE_API_TOKEN' = token
       /\ CLOUDFLARE_ZONE_ID' = zone
       /\ DOMAIN_NAME' = domain
       /\ IF env_missing(token, zone, domain) THEN Abort("env") ELSE Goto("args")
  /\ UNCHANGED << inputVars, routingVars, dnsVars, autheliaVars, historyVars,
                  effects >>

\* -------------------------------------------------------------- arguments
CheckArgs ==
  /\ pc = "args"
  /\ \E argv \in ArgvChoices :
       IF Len(argv) # 2
       THEN Abort("args") /\ UNCHANGED config_file
       ELSE Goto("load") /\ config_file' = argv[2]
  /\ UNCHANGED << envVars, inputVars, config, config_disk, backup_file, dnsVars,
                  autheliaVars, historyVars, effects >>

\* ------------------------------------------------- load the routing document
LoadConfig ==
  /\ pc = "load"
  /\ IF config_file \in ExistingFiles
     THEN Goto("backup") /\ config' = Some(yaml_safe_load(config_disk))
     ELSE Abort("load") /\ UNCHANGED config
  /\ UNCHANGED << envVars, inputVars, config_file, config_disk, backup_file,
                  dnsVars, autheliaVars, historyVars, effects >>

\* ----------------------------------------------- back up the routing document
WriteBackup ==
  /\ pc = "backup"
  /\ backup_file' = Some(yaml_dump(config[1]))
  /\ effects' = Append(effects, "routing_backup")
  /\ Goto("input")
  /\ UNCHANGED << envVars, inputVars, config_file, config, config_disk, dnsVars,
                  autheliaVars, historyVars >>

\* ------------------------------------------------------------------ input
\* Variant of normalize_scheme: trimmed but not lowercased.
normalize_scheme_case_kept(text) == strip(text)

normalize_scheme(text) == lower(strip(text))

ReadInput ==
  /\ pc = "input"
  /\ \E name \in ServiceNames, ip \in IpAddresses, text \in SchemeInputs :
       /\ service_name' = name
       /\ ip_address' = ip
       /\ scheme_input' = text
       /\ scheme' = normalize_scheme(text)
  /\ Goto("validate")
  /\ UNCHANGED << envVars, routingVars, dnsVars, autheliaVars, historyVars,
                  effects >>

scheme_valid(s) == s \in {T_http, T_https}

ValidateScheme ==
  /\ pc = "validate"
  /\ IF scheme_valid(scheme) THEN Goto("merge") ELSE Abort("scheme")
  /\ UNCHANGED << envVars, inputVars, routingVars, dnsVars, autheliaVars,
                  historyVars, effects >>

\* ------------------------------------------------- entry synthesis and merge
new_subdomain_of(name, domain) == name \o <<".">> \o Format(domain)

router_entry(name, domain) ==
  << << name,
        [entryPoints |-> <<"https">>,
         rule        |-> <<"H", "o", "s", "t", "(", "BACKTICK">>
                           \o new_subdomain_of(name, domain)
                           \o <<"BACKTICK", ")">>,
         middlewares |-> <<"chain-no-auth">>,
         tls         |-> <<>>,
         service     |-> name \o <<"-", "s", "v", "c">>] >> >>

service_entry(name, sch, ip) ==
  << << name \o <<"-", "s", "v", "c">>,
        [loadBalancer |->
           [servers |-> << [url |-> sch \o <<":", "/", "/">> \o ip \o <<"/">>] >>,
            passHostHeader |-> TRUE]] >> >>

\* Variant of merge_routers: an existing router keeps its definition.
merge_routers_keep_existing(routers, entry) ==
  sorted_dict(IF Has(routers, entry[1][1]) THEN routers ELSE update(routers, entry))

merge_routers(routers, entry) == sorted_dict(update(routers, entry))

merge_services(services, entry) == sorted_dict(update(services, entry))

Merge ==
  /\ pc = "merge"
  /\ config' = Some(
       [routers  |-> merge_routers(config[1].routers,
                                   router_entry(service_name, DOMAIN_NAME)),
        services |-> merge_services(config[1].services,
                                    service_entry(service_name, scheme, ip_address))])
  /\ Goto("write")
  /\ UNCHANGED << envVars, inputVars, config_file, config_disk, backup_file,
                  dnsVars, autheliaVars, historyVars, effects >>

WriteConfig ==
  /\ pc = "write"
  /\ config_disk' = yaml_dump(config[1])
  /\ effects' = Append(effects, "routing_write")
  /\ Goto("dns")
  /\ UNCHANGED << envVars, inputVars, config_file, config, backup_file, dnsVars,
                  autheliaVars, historyVars >>

\* ------------------------------------------------------------ DNS record
new_subdomain == new_subdomain_of(service_name, DOMAIN_NAME)

\* The POST of line 36 for CNAME cname_name -> cname_target.
cname_request(api_token, zone_id, cname_name, cname_target) ==
  [zone |-> Format(zone_id), bearer |-> Format(api_token), type |-> "CNAME",
   name |-> cname_name, content |-> cname_target, ttl |-> 1, proxied |-> TRUE]

\* Variant of AddCname: a status other than 200, 201 or 409 ends the process.
AddCnameExitOnFailure ==
  /\ pc = "dns"
  /\ dns_requests' = Append(dns_requests,
       cname_request(CLOUDFLARE_API_TOKEN, CLOUDFLARE_ZONE_ID, new_subdomain,
                     Format(DOMAIN_NAME)))
  /\ effects' = Append(effects, "dns")
  /\ \/ \E status \in StatusCodes :
          /\ response' = Some(status)
          /\ IF status \in {200, 201, 409} THEN Goto("auth_load") ELSE Abort("dns")
     \/ response' = None /\ Abort("dns")
  /\ UNCHANGED << envVars, inputVars, routingVars, autheliaVars, historyVars >>

\* Variant of AddCname: when the request raises, the routing file is
\* restored from the backup before the process ends.
AddCnameRollback ==
  /\ pc = "dns"
  /\ dns_requests' = Append(dns_requests,
       cname_request(CLOUDFLARE_API_TOKEN, CLOUDFLARE_ZONE_ID, new_subdomain,
                     Format(DOMAIN_NAME)))
  /\ effects' = Append(effects, "dns")
  /\ \/ /\ \E status \in StatusCodes : response' = Some(status) /\ Goto("auth_load")
        /\ UNCHANGED config_disk
     \/ /\ response' = None /\ Abort("dns")
        /\ config_disk' = backup_file[1]
  /\ UNCHANGED << envVars, inputVars, config_file, config, backup_file,
                  autheliaVars, historyVars >>

\* add_cname_record_to_cloudflare: the request is sent; whatever status comes
\* back is only printed and the function returns; requests.post raising is
\* not caught anywhere.
AddCname ==
  /\ pc = "dns"
  /\ dns_requests' = Append(dns_requests,
       cname_request(CLOUDFLARE_API_TOKEN, CLOUDFLARE_ZONE_ID, new_subdomain,
                     Format(DOMAIN_NAME)))
  /\ effects' = Append(effects, "dns")
  /\ \/ \E status \in StatusCodes : response' = Some(status) /\ Goto("auth_load")
     \/ response' = None /\ Abort("dns")
  /\ UNCHANGED << envVars, inputVars, routingVars, autheliaVars, historyVars >>

\* -------------------------------------------------- access-control document
\* Lines 125-130: the document is read, or open() raises.
AutheliaLoad ==
  /\ pc = "auth_load"
  /\ \/ /\ authelia_config' = Some(authelia_safe_load(authelia_disk))
        /\ Goto("auth_backup")
     \/ /\ Abort("auth_load")
        /\ UNCHANGED authelia_config
  /\ UNCHANGED << envVars, inputVars, routingVars, dnsVars, authelia_disk,
                  authelia_backup_file, historyVars, effects >>

\* Variant of AutheliaBackup: the backup is taken of the updated rules.
AutheliaBackupAfterUpdate ==
  /\ pc = "auth_backup"
  /\ authelia_backup_file' =
       Some(authelia_dump(
         IF \E i \in 1..Len(authelia_config[1]) : authelia_config[1][i].policy = "one_factor"
         THEN [authelia_config[1] EXCEPT
                 ![CHOOSE i \in 1..Len(authelia_config[1]) :
                     /\ authelia_config[1][i].policy = "one_factor"
                     /\ \A j \in 1..(i - 1) : authelia_config[1][j].policy # "one_factor"
                  ].domain = Append(@, new_subdomain)]
         ELSE Append(authelia_config[1],
                     [order |-> <<"domain", "policy">>, domain |-> <<new_subdomain>>,
                      policy |-> "one_factor"])))
  /\ effects' = Append(effects, "auth_backup")
  /\ Goto("auth_update")
  /\ UNCHANGED << envVars, inputVars, routingVars, dnsVars, authelia_config,
                  authelia_disk, historyVars >>

AutheliaBackup ==
  /\ pc = "auth_backup"
  /\ authelia_backup_file' = Some(authelia_dump(authelia_config[1]))
  /\ effects' = Append(effects, "auth_backup")
  /\ Goto("auth_update")
  /\ UNCHANGED << envVars, inputVars, routingVars, dnsVars, authelia_config,
                  authelia_disk, historyVars >>

OneFactorRules(rules) == {i \in 1..Len(rules) : rules[i].policy = "one_factor"}

FirstOf(indices) == CHOOSE i \in indices : \A j \in indices : i <= j

\* Variant of update_rules: the loop has no break, every one_factor rule
\* takes the subdomain.
update_rules_no_break(rules, subdomain) ==
  IF OneFactorRules(rules) # {}
  THEN [i \in 1..Len(rules) |->
          IF rules[i].policy = "one_factor"
          THEN [rules[i] EXCEPT !.domain = Append(@, subdomain)]
          ELSE rules[i]]
  ELSE Append(rules, [order |-> <<"domain", "policy">>, domain |-> <<subdomain>>,
                      policy |-> "one_factor"])

\* Variant of update_rules: the new rule is put in front of the list.
update_rules_insert_first(rules, subdomain) ==
  IF OneFactorRules(rules) # {}
  THEN [rules EXCEPT ![FirstOf(OneFactorRules(rules))].domain = Append(@, subdomain)]
  ELSE <<[order |-> <<"domain", "policy">>, domain |-> <<subdomain>>,
          policy |-> "one_factor"]>> \o rules

\* Variant of update_rules: a subdomain the rule already lists is not added.
update_rules_no_duplicate(rules, subdomain) ==
  IF OneFactorRules(rules) # {}
  THEN IF \E j \in 1..Len(rules[FirstOf(OneFactorRules(rules))].domain) :
            rules[FirstOf(OneFactorRules(rules))].domain[j] = subdomain
       THEN rules
       ELSE [rules EXCEPT ![FirstOf(OneFactorRules(rules))].domain = Append(@, subdomain)]
  ELSE Append(rules, [order |-> <<"domain", "policy">>, domain |-> <<subdomain>>,
                      policy |-> "one_factor"])

\* The for/else of lines 137-145.
update_rules(rules, subdomain) ==
  IF OneFactorRules(rules) # {}
  THEN [rules EXCEPT ![FirstOf(OneFactorRules(rules))].domain = Append(@, subdomain)]
  ELSE Append(rules, [order |-> <<"domain", "policy">>, domain |-> <<subdomain>>,
                      policy |-> "one_factor"])

AutheliaUpdate ==
  /\ pc = "auth_update"
  /\ authelia_config' = Some(update_rules(authelia_config[1], new_subdomain))
  /\ Goto("auth_write")
  /\ UNCHANGED << envVars, inputVars, routingVars, dnsVars, authelia_disk,
                  authelia_backup_file, historyVars, effects >>

\* Lines 146-152: the document is written and the script runs off its end
\* (status 0), or open() raises.
AutheliaWrite ==
  /\ pc = "auth_write"
  /\ \/ /\ authelia_disk' = authelia_dump(authelia_config[1])
        /\ effects' = Append(effects, "auth_write")
        /\ pc' = "exit"
        /\ exit_code' = Some(0)
        /\ failed_at' = "none"
     \/ /\ Abort("auth_write")
        /\ UNCHANGED << authelia_disk, effects >>
  /\ UNCHANGED << envVars, inputVars, routingVars, dnsVars, authelia_config,
                  authelia_backup_file, historyVars >>

\* ------------------------------------------------------- another invocation
\* The script is started again: a new process, the same two files.
StartRun ==
  /\ pc = "exit"
  /\ runs < MaxRuns
  /\ runs' = runs + 1
  /\ pc' = "env"
  /\ exit_code' = None
  /\ failed_at' = "none"
  /\ CLOUDFLARE_API_TOKEN' = None
  /\ CLOUDFLARE_ZONE_ID' = None
  /\ DOMAIN_NAME' = None
  /\ config_file' = "none"
  /\ config' = None
  /\ backup_file' = None
  /\ service_name' = <<>>
  /\ ip_address' = <<>>
  /\ scheme' = <<>>
  /\ scheme_input' = <<>>
  /\ response' = None
  /\ dns_requests' = <<>>
  /\ authelia_config' = None
  /\ authelia_backup_file' = None
  /\ effects' = <<>>
  /\ config_disk0' = config_disk
  /\ authelia_disk0' = authelia_disk
  /\ prev' = IF exit_code = Some(0)
             THEN [completed |-> TRUE, service_name |-> service_name,
                   ip_address |-> ip_address, scheme |-> scheme]
             ELSE NoPrev
  /\ UNCHANGED << config_disk, authelia_disk >>

Next ==
  \/ CheckEnv
  \/ CheckArgs
  \/ LoadConfig
  \/ WriteBackup
  \/ ReadInput
  \/ ValidateScheme
  \/ Merge
  \/ WriteConfig
  \/ AddCname
  \/ AutheliaLoad
  \/ AutheliaBackup
  \/ AutheliaUpdate
  \/ AutheliaWrite
  \/ StartRun

Spec == Init /\ [][Next]_vars

\* ================================================================ properties
\* Positions of a run, as the blocks already executed.
Merged ==
  \/ pc \in {"write", "dns", "auth_load", "auth_backup", "auth_update", "auth_write"}
  \/ pc = "exit" /\ failed_at \in {"dns", "auth_load", "auth_write", "none"}

Written == \E i \in 1..Len(effects) : effects[i] = "routing_write"

RulesUpdated ==
  \/ pc = "auth_write"
  \/ pc = "exit" /\ failed_at \in {"auth_write", "none"}

Completed == pc = "exit" /\ exit_code = Some(0)

\* The documents as a reader of the files sees them.
RoutingBefore == yaml_safe_load(config_disk0)

RoutingNow == yaml_safe_load(config_disk)

RulesBefore == authelia_safe_load(authelia_disk0)

RulesNow == authelia_safe_load(authelia_disk)

\* sorted(keys) == keys, for distinct keys.
KeysAscending(keys) ==
  \A i \in 1..Len(keys) : \A j \in 1..Len(keys) :
    i < j => StrLess(keys[i], keys[j]) /\ ~StrLess(keys[j], keys[i])

\* C1: after the update the routers mapping and the services mapping, in
\* memory and as persisted, have their keys in ascending lexicographic order;
\* routers {zeta} plus service name alpha gives the order [alpha, zeta].
C1_SortedAfterUpdate ==
  /\ Merged =>
       /\ KeysAscending(Keys(config[1].routers))
       /\ KeysAscending(Keys(config[1].services))
  /\ Written =>
       /\ KeysAscending(Keys(RoutingNow.routers))
       /\ KeysAscending(Keys(RoutingNow.services))
       /\ (Keys(RoutingBefore.routers) = <<T_zeta>> /\ service_name = T_alpha)
            => Keys(RoutingNow.routers) = <<T_alpha, T_zeta>>

\* C1 witness: a hand-written, unsorted document has been updated and its
\* routers are now alpha, lab, zeta.
C1_Witness ==
  /\ Written
  /\ ~KeysAscending(Keys(RoutingBefore.routers))
  /\ service_name = T_alpha
  /\ Keys(RoutingNow.routers) = <<T_alpha, T_lab, T_zeta>>
  /\ Keys(RoutingNow.services) = <<Svc(T_alpha), Svc(T_lab), Svc(T_zeta)>>

\* ----------------------------------------------------------------------
RoutingBackupFaithful ==
  backup_file # None =>
    /\ DocEq(yaml_safe_load(backup_file[1]), RoutingBefore)
    /\ (~Written => config_disk = config_disk0)
    /\ (pc \in {"input", "validate", "merge"} => config[1] = RoutingBefore)

AutheliaBackupFaithful ==
  authelia_backup_file # None =>
    /\ RulesEq(authelia_safe_load(authelia_backup_file[1]), RulesBefore)
    /\ (pc = "auth_update" =>
          authelia_config[1] = RulesBefore /\ authelia_disk = authelia_disk0)

HoldsNewRouter(doc) ==
  /\ Has(doc.routers, service_name)
  /\ Lookup(doc.routers, service_name).service = Svc(service_name)
  /\ Lookup(doc.routers, service_name).middlewares = <<"chain-no-auth">>

HoldsNewService(doc) ==
  /\ Has(doc.services, Svc(service_name))
  /\ Len(Lookup(doc.services, Svc(service_name)).loadBalancer.servers) = 1
  /\ Lookup(doc.services, Svc(service_name)).loadBalancer.servers[1].url
       = scheme \o <<":", "/", "/">> \o ip_address \o <<"/">>

HoldsSubdomain(rules) ==
  \E i \in 1..Len(rules) : \E j \in 1..Len(rules[i].domain) :
    rules[i].domain[j] = Sub(service_name)

\* C2 as stated: each backup parses to the document as it was before the
\* run, is written before any mutation, and never contains the router,
\* service or subdomain the run adds.
C2_AsStated ==
  /\ RoutingBackupFaithful
  /\ AutheliaBackupFaithful
  /\ (backup_file # None /\ Merged) =>
       /\ ~HoldsNewRouter(yaml_safe_load(backup_file[1]))
       /\ ~HoldsNewService(yaml_safe_load(backup_file[1]))
  /\ authelia_backup_file # None =>
       ~HoldsSubdomain(authelia_safe_load(authelia_backup_file[1]))

\* C2 amended: each backup parses to the document as it was before the run
\* and is written before any mutation; it contains the run's router, service
\* or subdomain only if the document already contained it before the run.
C2_BackupRoundTrip ==
  /\ RoutingBackupFaithful
  /\ AutheliaBackupFaithful
  /\ (backup_file # None /\ Merged) =>
       /\ HoldsNewRouter(yaml_safe_load(backup_file[1])) => HoldsNewRouter(RoutingBefore)
       /\ HoldsNewService(yaml_safe_load(backup_file[1])) => HoldsNewService(RoutingBefore)
  /\ authelia_backup_file # None =>
       (HoldsSubdomain(authelia_safe_load(authelia_backup_file[1]))
          => HoldsSubdomain(RulesBefore))

\* C2 witness: a run has completed on hand-written files; both backups
\* exist, differ from the files as text, and both documents have changed.
C2_Witness ==
  /\ Completed
  /\ backup_file # None /\ backup_file[1] # config_disk0
  /\ authelia_backup_file # None /\ authelia_backup_file[1] # authelia_disk0
  /\ ~DocEq(RoutingNow, RoutingBefore)
  /\ ~RulesEq(RulesNow, RulesBefore)

\* ----------------------------------------------------------------------
IsFirstOneFactor(rules, k) ==
  /\ k \in 1..Len(rules)
  /\ rules[k].policy = "one_factor"
  /\ \A j \in 1..(k - 1) : rules[j].policy # "one_factor"

HasOneFactor(rules) == \E k \in 1..Len(rules) : rules[k].policy = "one_factor"

AppendedToFirst(old, new) ==
  /\ Len(new) = Len(old)
  /\ \A k \in 1..Len(old) :
       IF IsFirstOneFactor(old, k)
       THEN /\ new[k].domain = Append(old[k].domain, Sub(service_name))
            /\ new[k].policy = "one_factor"
       ELSE RuleEq(new[k], old[k])

\* C3: with a one_factor rule present, the subdomain is appended to the end
\* of the first such rule's domain list only; the number of rules and every
\* other rule are unchanged.
C3_AppendToFirstOneFactor ==
  HasOneFactor(RulesBefore) =>
    /\ RulesUpdated => AppendedToFirst(RulesBefore, authelia_config[1])
    /\ Completed => AppendedToFirst(RulesBefore, RulesNow)

\* C3 witness: a completed run on a document with two one_factor rules,
\* the first of them in second position.
C3_Witness ==
  /\ Completed
  /\ Cardinality(OneFactorRules(RulesBefore)) = 2
  /\ IsFirstOneFactor(RulesBefore, 2)
  /\ Len(RulesNow[2].domain) = Len(RulesBefore[2].domain) + 1

NewRuleAppended(old, new) ==
  /\ Len(new) = Len(old) + 1
  /\ \A k \in 1..Len(old) : RuleEq(new[k], old[k])
  /\ new[Len(new)].domain = <<Sub(service_name)>>
  /\ new[Len(new)].policy = "one_factor"

\* C4: with no one_factor rule (or no rule at all), exactly one rule
\* {domain: [subdomain], policy: one_factor} is appended at the end, the
\* existing rules keep their values and order, and the document is persisted.
C4_AppendNewRule ==
  ~HasOneFactor(RulesBefore) =>
    /\ RulesUpdated => NewRuleAppended(RulesBefore, authelia_config[1])
    /\ Completed => NewRuleAppended(RulesBefore, RulesNow)

\* C4 witness: a completed run on a document whose only rule is two_factor.
C4_Witness ==
  /\ Completed
  /\ Len(RulesBefore) = 1
  /\ RulesBefore[1].policy = "two_factor"
  /\ Len(RulesNow) = 2

\* ----------------------------------------------------------------------
Answered == response # None

Unset(v) == v = None \/ v = Some(<<>>)

\* C6: with any of the three settings missing or empty the process ends
\* with status 1 at the environment check, before the argument check and
\* with no effect: nothing read, written, backed up, prompted or sent.
C6_EnvMissingStopsFirst ==
  (pc # "env" /\ (Unset(CLOUDFLARE_API_TOKEN) \/ Unset(CLOUDFLARE_ZONE_ID)
                    \/ Unset(DOMAIN_NAME))) =>
    /\ pc = "exit"
    /\ exit_code = Some(1)
    /\ failed_at = "env"
    /\ config_file = "none"
    /\ config = None
    /\ backup_file = None
    /\ authelia_config = None
    /\ authelia_backup_file = None
    /\ service_name = <<>> /\ ip_address = <<>> /\ scheme_input = <<>>
    /\ dns_requests = <<>>
    /\ effects = <<>>
    /\ config_disk = config_disk0
    /\ authelia_disk = authelia_disk0

\* C6 witness: token and zone are set, the domain is the empty string, and
\* the process has ended at the environment check.
C6_Witness ==
  /\ pc = "exit"
  /\ failed_at = "env"
  /\ Truthy(CLOUDFLARE_API_TOKEN)
  /\ Truthy(CLOUDFLARE_ZONE_ID)
  /\ DOMAIN_NAME = Some(<<>>)

\* ----------------------------------------------------------------------
Validated == Merged \/ pc = "merge" \/ (pc = "exit" /\ failed_at = "scheme")

Rejected == pc = "exit" /\ failed_at = "scheme"

TrimmedLowercased == lower(strip(scheme_input))

StoredUrls(doc) == Lookup(doc.services, Svc(service_name)).loadBalancer.servers

ExpectedUrl == TrimmedLowercased \o <<":", "/", "/">> \o ip_address \o <<"/">>

\* C7: the scheme is accepted exactly when its trimmed, lowercased form is
\* http or https; when accepted the stored URL is <lowercased>://<ip>/ (so
\* HTTPS is stored as https://); when rejected the exit status is 1, the
\* routing file is unchanged, nothing is sent, the access-control document
\* is neither backed up nor modified, and the routing backup exists.
C7_SchemeContract ==
  /\ Validated => (Rejected <=> TrimmedLowercased \notin {T_http, T_https})
  /\ Merged => StoredUrls(config[1]) = << [url |-> ExpectedUrl] >>
  /\ Written => StoredUrls(RoutingNow) = << [url |-> ExpectedUrl] >>
  /\ (Written /\ scheme_input = <<"H", "T", "T", "P", "S">>) =>
       SubSeq(StoredUrls(RoutingNow)[1].url, 1, 8)
         = <<"h", "t", "t", "p", "s", ":", "/", "/">>
  /\ Rejected =>
       /\ exit_code = Some(1)
       /\ config_disk = config_disk0
       /\ dns_requests = <<>>
       /\ authelia_backup_file = None
       /\ authelia_config = None
       /\ authelia_disk = authelia_disk0
       /\ backup_file # None
       /\ effects = <<"routing_backup">>

\* C7 witness: HTTPS was typed, the run completed and the stored URL is
\* https://<ip>/.
C7_Witness ==
  /\ Completed
  /\ scheme_input = <<"H", "T", "T", "P", "S">>
  /\ StoredUrls(RoutingNow) = << [url |-> T_https \o <<":", "/", "/">> \o ip_address \o <<"/">>] >>

\* ----------------------------------------------------------------------
Occurrences(list, x) == Cardinality({i \in 1..Len(list) : list[i] = x})

SameInputsAgain ==
  /\ Completed
  /\ prev.completed
  /\ prev.service_name = service_name
  /\ prev.ip_address = ip_address
  /\ prev.scheme = scheme

\* C8: a second completed run with the same service name, IP and scheme
\* leaves the routing document equal to what the first run left, but the
\* first one_factor rule now lists the subdomain twice and the
\* access-control document differs from the one the first run left.
C8_NotIdempotent ==
  SameInputsAgain =>
    /\ DocEq(RoutingNow, RoutingBefore)
    /\ config_disk = config_disk0
    /\ ~RulesEq(RulesNow, RulesBefore)
    /\ \E k \in 1..Len(RulesNow) :
         /\ IsFirstOneFactor(RulesNow, k)
         /\ Occurrences(RulesNow[k].domain, Sub(service_name)) >= 2
         /\ Occurrences(RulesNow[k].domain, Sub(service_name))
              = Occurrences(RulesBefore[k].domain, Sub(service_name)) + 1

\* C8 witness: two completed runs in a row with the same inputs.
C8_Witness ==
  /\ SameInputsAgain
  /\ runs = 2
  /\ HasOneFactor(RulesBefore)

\* ----------------------------------------------------------------------
HostRule(name) ==
  <<"H", "o", "s", "t", "(", "BACKTICK">> \o name \o <<".">> \o T_domain
    \o <<"BACKTICK", ")">>

EntriesReplaced(old, new) ==
  /\ Has(new.routers, service_name)
  /\ Lookup(new.routers, service_name).rule = HostRule(service_name)
  /\ Lookup(new.routers, service_name).service = Svc(service_name)
  /\ DOMAIN Lookup(new.routers, service_name)
       = {"entryPoints", "rule", "middlewares", "tls", "service"}
  /\ Lookup(new.routers, service_name).entryPoints = <<"https">>
  /\ Lookup(new.routers, service_name).middlewares = <<"chain-no-auth">>
  /\ Has(new.services, Lookup(new.routers, service_name).service)
  /\ Len(StoredUrls(new)) = 1
  /\ DOMAIN Lookup(new.services, Svc(service_name)).loadBalancer
       = {"servers", "passHostHeader"}
  /\ Lookup(new.services, Svc(service_name)).loadBalancer.passHostHeader = TRUE
  /\ KeySet(new.routers) = KeySet(old.routers) \cup {service_name}
  /\ KeySet(new.services) = KeySet(old.services) \cup {Svc(service_name)}
  /\ \A k \in KeySet(old.routers) \ {service_name} :
       Lookup(new.routers, k) = Lookup(old.routers, k)
  /\ \A k \in KeySet(old.services) \ {Svc(service_name)} :
       Lookup(new.services, k) = Lookup(old.services, k)

\* C9: after the update routers[<service>] has rule Host(<service>.<domain>)
\* and names <service>-svc, which exists with exactly one URL; an existing
\* definition is replaced whole, and all other entries keep their values.
C9_EntriesReplacedOthersKept ==
  /\ Merged => EntriesReplaced(RoutingBefore, config[1])
  /\ Written => EntriesReplaced(RoutingBefore, RoutingNow)

\* C9 witness: the router and the service both existed before the run with
\* other definitions, next to entries of other names, and the run completed.
C9_Witness ==
  /\ Completed
  /\ Has(RoutingBefore.routers, service_name)
  /\ Has(RoutingBefore.services, Svc(service_name))
  /\ "priority" \in DOMAIN Lookup(RoutingBefore.routers, service_name)
  /\ Cardinality(KeySet(RoutingBefore.routers)) >= 2

\* ----------------------------------------------------------------------
EffectOrder ==
  <<"routing_backup", "routing_write", "dns", "auth_backup", "auth_write">>

PassedChecks == Merged \/ pc = "merge"

====
